---- MODULE Spec2Model ----
(***************************************************************************)
(* topology_lib_ntpd: the nine operations of library.py, each formatting   *)
(* one shell command and handing it to the engine node, together with the  *)
(* remote shell that runs the command on /etc/ntp.conf and /etc/ntp.keys.  *)
(* A text is a sequence of one-character strings, so that formatting,      *)
(* substring tests and sed's pattern matching are computed on characters.  *)
(***************************************************************************)
EXTENDS Integers, Sequences, FiniteSets, TLC

VARIABLES
    fs,       \* the node's files: path -> sequence of lines
    last,     \* the most recent call: operation, arguments, outcome, commands sent
    ncalls,   \* calls made so far
    nsent,    \* commands the channel has received so far
    callers   \* the concurrent callers of the update scenario (sched, addr, pc)

vars == <<fs, last, ncalls, nsent, callers>>

(* ------------------------------ bounds -------------------------------- *)

MaxCalls == 3

(* ------------------------- module constants --------------------------- *)

CONFIG_FILE == <<"/","e","t","c","/","n","t","p",".","c","o","n","f">>

KEYS_FILE == <<"/","e","t","c","/","n","t","p",".","k","e","y","s">>

(* ----------------------------- texts ---------------------------------- *)

StartsWith(s, p) == Len(s) >= Len(p) /\ SubSeq(s, 1, Len(p)) = p

Drop(s, n) == SubSeq(s, n + 1, Len(s))

\* Index of the first occurrence of character c in s, 0 when absent.
IndexOf(s, c) ==
    IF \E i \in 1..Len(s) : s[i] = c
    THEN CHOOSE i \in 1..Len(s) : s[i] = c /\ \A j \in 1..(i - 1) : s[j] # c
    ELSE 0

\* Python's `sub in s` on strings.
Contains(s, sub) ==
    \E i \in 0..(Len(s) - Len(sub)) : SubSeq(s, i + 1, i + Len(sub)) = sub

Digit(d) ==
    CASE d = 0 -> "0" [] d = 1 -> "1" [] d = 2 -> "2" [] d = 3 -> "3"
      [] d = 4 -> "4" [] d = 5 -> "5" [] d = 6 -> "6" [] d = 7 -> "7"
      [] d = 8 -> "8" [] d = 9 -> "9"

RECURSIVE Digits(_)
Digits(n) == IF n < 10 THEN <<Digit(n)>> ELSE Append(Digits(n \div 10), Digit(n % 10))

\* '{trustedkey_id}'.format(...) of an int: decimal, with a sign when negative.
Str(n) == IF n < 0 THEN <<"-">> \o Digits(0 - n) ELSE Digits(n)

(* ---------------------- the node's shell (enode) ---------------------- *)

SPACE_CLASS == <<"[","[",":","s","p","a","c","e",":","]","]">>

\* The atoms of a sed basic regular expression made of ordinary characters,
\* `.` and the bracket expression [[:space:]].
RECURSIVE Atoms(_)
Atoms(pat) ==
    IF pat = <<>> THEN <<>>
    ELSE IF StartsWith(pat, SPACE_CLASS)
         THEN <<"[[:space:]]">> \o Atoms(Drop(pat, Len(SPACE_CLASS)))
         ELSE <<Head(pat)>> \o Atoms(Tail(pat))

AtomMatches(atom, ch) ==
    CASE atom = "[[:space:]]" -> ch \in {" ", "\t"}
      [] atom = "."           -> TRUE
      [] OTHER                -> atom = ch

\* sed's /pat/ address: the pattern matches anywhere in the line.
SedMatches(pat, line) ==
    LET atoms == Atoms(pat) IN
    \E i \in 0..(Len(line) - Len(atoms)) :
        \A j \in 1..Len(atoms) : AtomMatches(atoms[j], line[i + j])

\* sed -i '/pat/d': the lines that do not match, in order.
SedDelete(pat, lines) == SelectSeq(lines, LAMBDA l : ~SedMatches(pat, l))

ECHO_OPEN == <<"e","c","h","o"," ","\"">>

ECHO_REDIRECT == <<"\""," ",">",">"," ">>

SED_OPEN == <<"s","e","d"," ","-","i"," ","'","/">>

SED_CLOSE == <<"/","d","'"," ">>

\* The files after bash has run `echo "<text>" >> <path>`.
RunEcho(rest, files) ==
    LET q    == IndexOf(rest, "\"")
        text == SubSeq(rest, 1, q - 1)
        tail == Drop(rest, q - 1)
        path == Drop(tail, Len(ECHO_REDIRECT))
    IN  IF q > 0 /\ StartsWith(tail, ECHO_REDIRECT) /\ path \in DOMAIN files
        THEN [files EXCEPT ![path] = Append(@, text)]
        ELSE files

\* The files after bash has run `sed -i '/<pat>/d' <path>`.
RunSed(rest, files) ==
    LET q    == IndexOf(rest, "/")
        pat  == SubSeq(rest, 1, q - 1)
        tail == Drop(rest, q - 1)
        path == Drop(tail, Len(SED_CLOSE))
    IN  IF q > 1 /\ StartsWith(tail, SED_CLOSE) /\ path \in DOMAIN files
        THEN [files EXCEPT ![path] = SedDelete(pat, @)]
        ELSE files

\* The files after the node's bash has run cmd; the init script and ntpd
\* write neither file.
Execute(cmd, files) ==
    IF StartsWith(cmd, ECHO_OPEN) THEN RunEcho(Drop(cmd, Len(ECHO_OPEN)), files)
    ELSE IF StartsWith(cmd, SED_OPEN) THEN RunSed(Drop(cmd, Len(SED_OPEN)), files)
    ELSE files

(* --------------------------- call records ----------------------------- *)

\* An optional int is <<>> (None) or <<n>>.
None == <<>>

NoArgs ==
    [server |-> <<>>, id |-> None, key |-> <<>>, type |-> <<>>,
     keyfile |-> FALSE, out |-> <<>>]

\* What is known of a call once it has returned: its operation and arguments,
\* the files as they were when it was made, whether it raised, what it sent.
Record(op, args, before, raised, sent) ==
    [op |-> op, server |-> args.server, id |-> args.id, key |-> args.key,
     type |-> args.type, keyfile |-> args.keyfile, out |-> args.out,
     before |-> before, raised |-> raised, sent |-> sent]

\* An assert fails before the command is built: AssertionError, nothing sent.
Raise(op, args) ==
    /\ last' = Record(op, args, fs, TRUE, <<>>)
    /\ ncalls' = ncalls + 1
    /\ UNCHANGED <<fs, nsent>>

\* enode(cmd, shell='bash'): the node runs cmd; the call then raises
\* AssertionError when `failed` (the check made on the returned output).
Enode(op, args, cmd, failed) ==
    /\ fs' = Execute(cmd, fs)
    /\ nsent' = nsent + 1
    /\ last' = Record(op, args, fs, failed, <<[cmd |-> cmd, shell |-> "bash"]>>)
    /\ ncalls' = ncalls + 1

(* ---------------------------- operations ------------------------------ *)

DONE == <<"d","o","n","e">>

\* ntpd_stop: run the init script, then assert 'done' in the output.
ntpd_stop(out) ==
    Enode("ntpd_stop", [NoArgs EXCEPT !.out = out],
          <<"/","e","t","c","/","i","n","i","t",".","d","/","n","t","p"," ","s","t","o","p">>, ~Contains(out, DONE))

\* add_ntp_server: assert server; echo "server {server}" >> CONFIG_FILE.
add_ntp_server(server) ==
    IF server = <<>>
    THEN Raise("add_ntp_server", [NoArgs EXCEPT !.server = server])
    ELSE Enode("add_ntp_server", [NoArgs EXCEPT !.server = server],
               <<"e","c","h","o"," ","\"","s","e","r","v","e","r"," ">> \o server \o <<"\""," ",">",">"," ">> \o CONFIG_FILE, FALSE)

\* remove_ntp_server with the pattern run on the wrong file.
remove_ntp_server_keysfile(server) ==
    IF server = <<>>
    THEN Raise("remove_ntp_server", [NoArgs EXCEPT !.server = server])
    ELSE Enode("remove_ntp_server", [NoArgs EXCEPT !.server = server],
               <<"s","e","d"," ","-","i"," ","'","/">> \o server \o <<"/","d","'"," ">> \o KEYS_FILE, FALSE)

\* remove_ntp_server: assert server; sed -i '/{server}/d' CONFIG_FILE.
remove_ntp_server(server) ==
    IF server = <<>>
    THEN Raise("remove_ntp_server", [NoArgs EXCEPT !.server = server])
    ELSE Enode("remove_ntp_server", [NoArgs EXCEPT !.server = server],
               <<"s","e","d"," ","-","i"," ","'","/">> \o server \o <<"/","d","'"," ">> \o CONFIG_FILE, FALSE)

\* add_trustedkey appending to the key file instead of the configuration file.
add_trustedkey_keysfile(trustedkey_id) ==
    IF ~(trustedkey_id > 0 /\ trustedkey_id < 65535)
    THEN Raise("add_trustedkey", [NoArgs EXCEPT !.id = <<trustedkey_id>>])
    ELSE Enode("add_trustedkey", [NoArgs EXCEPT !.id = <<trustedkey_id>>],
               <<"e","c","h","o"," ","\"","t","r","u","s","t","e","d","k","e","y"," ">> \o Str(trustedkey_id) \o <<"\""," ",">",">"," ">>
                   \o KEYS_FILE, FALSE)

\* add_trustedkey: assert 0 < id < 65535; echo "trustedkey {id}" >> CONFIG_FILE.
add_trustedkey(trustedkey_id) ==
    /\ IF ~(trustedkey_id > 0 /\ trustedkey_id < 65535)
       THEN Raise("add_trustedkey", [NoArgs EXCEPT !.id = <<trustedkey_id>>])
       ELSE Enode("add_trustedkey", [NoArgs EXCEPT !.id = <<trustedkey_id>>],
                  <<"e","c","h","o"," ","\"","t","r","u","s","t","e","d","k","e","y"," ">> \o Str(trustedkey_id) \o <<"\""," ",">",">"," ">>
                      \o CONFIG_FILE, FALSE)

\* remove_trustedkey with the whitespace-bounded pattern of the password removal.
remove_trustedkey_bounded(trustedkey_id) ==
    IF ~(trustedkey_id > 0 /\ trustedkey_id < 65535)
    THEN Raise("remove_trustedkey", [NoArgs EXCEPT !.id = <<trustedkey_id>>])
    ELSE Enode("remove_trustedkey", [NoArgs EXCEPT !.id = <<trustedkey_id>>],
               <<"s","e","d"," ","-","i"," ","'","/","t","r","u","s","t","e","d","k","e","y"," ">> \o Str(trustedkey_id) \o <<"[","[",":","s","p","a","c","e",":","]","]","/","d","'"," ">>
                   \o CONFIG_FILE, FALSE)

\* remove_trustedkey: assert 0 < id < 65535; sed -i '/trustedkey {id}/d' CONFIG_FILE.
remove_trustedkey(trustedkey_id) ==
    /\ IF ~(trustedkey_id > 0 /\ trustedkey_id < 65535)
       THEN Raise("remove_trustedkey", [NoArgs EXCEPT !.id = <<trustedkey_id>>])
       ELSE Enode("remove_trustedkey", [NoArgs EXCEPT !.id = <<trustedkey_id>>],
                  <<"s","e","d"," ","-","i"," ","'","/","t","r","u","s","t","e","d","k","e","y"," ">> \o Str(trustedkey_id) \o <<"/","d","'"," ">>
                      \o CONFIG_FILE, FALSE)

\* add_trustedkey_password without `assert key`.
add_trustedkey_password_nokeycheck(trustedkey_id, key, type) ==
    LET args == [NoArgs EXCEPT !.id = <<trustedkey_id>>, !.key = key, !.type = type]
    IN  IF ~(trustedkey_id > 0 /\ trustedkey_id < 65535)
        THEN Raise("add_trustedkey_password", args)
        ELSE Enode("add_trustedkey_password", args,
                   <<"e","c","h","o"," ","\"">> \o Str(trustedkey_id) \o <<" ">> \o type \o <<" ">>
                       \o key \o <<"\""," ",">",">"," ">> \o KEYS_FILE, FALSE)

\* add_trustedkey_password: assert 0 < id < 65535; assert key;
\* echo "{id} {type} {key}" >> KEYS_FILE.
add_trustedkey_password(trustedkey_id, key, type) ==
    LET args == [NoArgs EXCEPT !.id = <<trustedkey_id>>, !.key = key, !.type = type]
    IN  /\ IF ~(trustedkey_id > 0 /\ trustedkey_id < 65535)
           THEN Raise("add_trustedkey_password", args)
           ELSE IF key = <<>>
           THEN Raise("add_trustedkey_password", args)
           ELSE Enode("add_trustedkey_password", args,
                      <<"e","c","h","o"," ","\"">> \o Str(trustedkey_id) \o <<" ">> \o type \o <<" ">>
                          \o key \o <<"\""," ",">",">"," ">> \o KEYS_FILE, FALSE)

\* remove_trustedkey_password with the upper bound off by one (<= 65535).
remove_trustedkey_password_inclusive(trustedkey_id) ==
    IF ~(trustedkey_id > 0 /\ trustedkey_id <= 65535)
    THEN Raise("remove_trustedkey_password",
               [NoArgs EXCEPT !.id = <<trustedkey_id>>])
    ELSE Enode("remove_trustedkey_password",
               [NoArgs EXCEPT !.id = <<trustedkey_id>>],
               <<"s","e","d"," ","-","i"," ","'","/">> \o Str(trustedkey_id) \o <<"[","[",":","s","p","a","c","e",":","]","]","/","d","'"," ">>
                   \o KEYS_FILE, FALSE)

\* remove_trustedkey_password: assert 0 < id < 65535;
\* sed -i '/{id}[[:space:]]/d' KEYS_FILE.
remove_trustedkey_password(trustedkey_id) ==
    /\ IF ~(trustedkey_id > 0 /\ trustedkey_id < 65535)
       THEN Raise("remove_trustedkey_password",
                  [NoArgs EXCEPT !.id = <<trustedkey_id>>])
       ELSE Enode("remove_trustedkey_password",
                  [NoArgs EXCEPT !.id = <<trustedkey_id>>],
                  <<"s","e","d"," ","-","i"," ","'","/">> \o Str(trustedkey_id) \o <<"[","[",":","s","p","a","c","e",":","]","]","/","d","'"," ">>
                      \o KEYS_FILE, FALSE)

\* ntpd_config_files with the `is not None` assert hoisted out of `if keyfile`.
ntpd_config_files_hoisted(keyfile, trustedkey_id) ==
    LET args == [NoArgs EXCEPT !.keyfile = keyfile, !.id = trustedkey_id]
        cmd  == <<"n","t","p","d"," ","-","c"," ">> \o CONFIG_FILE
    IN  IF trustedkey_id = None
        THEN Raise("ntpd_config_files", args)
        ELSE IF keyfile
        THEN Enode("ntpd_config_files", args,
                   cmd \o <<" ","-","k"," ">> \o KEYS_FILE \o <<" ","-","t"," ">>
                       \o Str(trustedkey_id[1]), FALSE)
        ELSE Enode("ntpd_config_files", args, cmd, FALSE)

\* ntpd_config_files: ntpd -c CONFIG_FILE, and with keyfile (after asserting
\* that the id is not None) -k KEYS_FILE -t {id}; the id's range is not checked.
ntpd_config_files(keyfile, trustedkey_id) ==
    LET args == [NoArgs EXCEPT !.keyfile = keyfile, !.id = trustedkey_id]
        cmd  == <<"n","t","p","d"," ","-","c"," ">> \o CONFIG_FILE
    IN  /\ IF keyfile
           THEN IF trustedkey_id = None
                THEN Raise("ntpd_config_files", args)
                ELSE Enode("ntpd_config_files", args,
                           cmd \o <<" ","-","k"," ">> \o KEYS_FILE \o <<" ","-","t"," ">>
                               \o Str(trustedkey_id[1]), FALSE)
           ELSE Enode("ntpd_config_files", args, cmd, FALSE)

\* ntpd_start comparing the output with the marker instead of searching it.
ntpd_start_exact(out) ==
    Enode("ntpd_start", [NoArgs EXCEPT !.out = out],
          <<"/","e","t","c","/","i","n","i","t",".","d","/","n","t","p"," ","s","t","a","r","t">>, out # DONE)

\* ntpd_start: run the init script, then assert 'done' in the output.
ntpd_start(out) ==
    Enode("ntpd_start", [NoArgs EXCEPT !.out = out],
          <<"/","e","t","c","/","i","n","i","t",".","d","/","n","t","p"," ","s","t","a","r","t">>, ~Contains(out, DONE))

(* ------------------------------ inputs -------------------------------- *)

Servers == {<<>>, <<"a",".","b">>, <<"a",".","b","c">>, <<"a","x","b">>}

KeyIds == {-1, 0, 1, 5, 55, 12, 123, 65534, 65535}

ConfigIds == {None, <<0>>, <<7>>, <<65535>>}

Passwords == {<<>>, <<"s","e","c","r","e","t">>, <<"o","t","h","e","r">>}

HashTypes == {<<"M">>}

Outputs ==
    {<<"S","t","a","r","t","i","n","g"," ","n","t","p","d",".",".","."," ","d","o","n","e">>, <<"S","t","o","p","p","i","n","g"," ","n","t","p","d",".",".","."," ","d","o","n","e">>, <<"f","a","i","l","e","d">>, <<"d","o","n">>, <<>>}

(* --------------------------- specification ---------------------------- *)

\* No update scenario is running: one caller makes the calls one at a time.
Idle == [sched |-> "single", addr |-> <<>>, pc |-> <<>>]

Init ==
    /\ fs = (CONFIG_FILE :> <<>>) @@ (KEYS_FILE :> <<>>)
    /\ last = Record("none", NoArgs, fs, FALSE, <<>>)
    /\ ncalls = 0
    /\ nsent = 0
    /\ callers = Idle

Next ==
    /\ ncalls < MaxCalls
    /\ UNCHANGED callers
    /\ \/ \E out \in Outputs : ntpd_stop(out)
       \/ \E server \in Servers : add_ntp_server(server)
       \/ \E server \in Servers : remove_ntp_server(server)
       \/ \E id \in KeyIds : add_trustedkey(id)
       \/ \E id \in KeyIds : remove_trustedkey(id)
       \/ \E id \in KeyIds, key \in Passwords, type \in HashTypes :
              add_trustedkey_password(id, key, type)
       \/ \E id \in KeyIds : remove_trustedkey_password(id)
       \/ \E keyfile \in BOOLEAN, id \in ConfigIds : ntpd_config_files(keyfile, id)
       \/ \E out \in Outputs : ntpd_start(out)

Spec == Init /\ [][Next]_vars

(* ------------- the update scenario: remove, then add ------------------ *)

NCallers == 2

MaxPrior == 2

Callers == 1..NCallers

\* The lines add_ntp_server can have put into the configuration file.
ServerLines == {<<"s","e","r","v","e","r"," ">> \o s : s \in Servers \ {<<>>}}

PriorConfs == UNION {[1..n -> ServerLines] : n \in 0..MaxPrior}

\* Every caller is about to change the entry of the same address on the same
\* node; the module takes no lock, so under "concurrent" any caller may make
\* its next call at any time, while "serial" is the callers serialised
\* externally: a caller starts only when no other is between its two calls.
InitUpdate ==
    /\ \E conf \in PriorConfs : fs = (CONFIG_FILE :> conf) @@ (KEYS_FILE :> <<>>)
    /\ last = Record("none", NoArgs, fs, FALSE, <<>>)
    /\ ncalls = 0
    /\ nsent = 0
    /\ \E sched \in {"serial", "concurrent"}, addr \in Servers \ {<<>>} :
           callers = [sched |-> sched, addr |-> addr,
                      pc |-> [c \in Callers |-> "remove"]]

UpdateRemove(c) ==
    /\ callers.pc[c] = "remove"
    /\ callers.sched = "serial" =>
           \A d \in Callers \ {c} : callers.pc[d] # "add"
    /\ remove_ntp_server(callers.addr)
    /\ callers' = [callers EXCEPT !.pc[c] = "add"]

UpdateAdd(c) ==
    /\ callers.pc[c] = "add"
    /\ add_ntp_server(callers.addr)
    /\ callers' = [callers EXCEPT !.pc[c] = "done"]

NextUpdate ==
    \/ \E c \in Callers : UpdateRemove(c)
    \/ \E c \in Callers : UpdateAdd(c)

SpecUpdate == InitUpdate /\ [][NextUpdate]_vars

(* ---------------------------- properties ----------------------------- *)

Conf == fs[CONFIG_FILE]

Keys == fs[KEYS_FILE]

ConfBefore == last.before[CONFIG_FILE]

KeysBefore == last.before[KEYS_FILE]

KeyOps ==
    {"add_trustedkey", "remove_trustedkey",
     "add_trustedkey_password", "remove_trustedkey_password"}

Bash(cmd) == <<[cmd |-> cmd, shell |-> "bash"]>>

\* C1. A key id i with i <= 0 or i >= 65535 makes each of add_trustedkey,
\* remove_trustedkey, add_trustedkey_password and remove_trustedkey_password
\* raise with no command sent and both files as they were; with 0 < i < 65535
\* the id check passes: the call raises only for an empty password, and
\* otherwise sends its command.
C1_IdRangeChecked ==
    last.op \in KeyOps =>
        LET i == last.id[1] IN
        IF i <= 0 \/ i >= 65535
        THEN last.raised /\ last.sent = <<>> /\ fs = last.before
        ELSE /\ last.raised => (last.op = "add_trustedkey_password" /\ last.key = <<>>)
             /\ ~last.raised => Len(last.sent) = 1

C1_Witness ==
    /\ last.op \in KeyOps
    /\ last.id = <<65535>>
    /\ last.raised /\ last.sent = <<>>
    /\ Conf # <<>> /\ Keys # <<>>

\* C2 (as claimed). After add_trustedkey_password(5, "secret", "M"),
\* remove_trustedkey_password(5) removes exactly the key-file lines whose id
\* is 5: no line starting with `5 ` is left and every other line, `55 M other`
\* among them, survives.
C2_RemovesOnlyExactId ==
    (/\ last.op = "remove_trustedkey_password"
     /\ last.id = <<5>>
     /\ ~last.raised
     /\ KeysBefore # <<>>
     /\ KeysBefore[Len(KeysBefore)] = <<"5"," ","M"," ","s","e","c","r","e","t">>)
    => Keys = SelectSeq(KeysBefore, LAMBDA l : ~StartsWith(l, <<"5"," ">>))

\* C3 (as claimed). Every command the channel receives that carries a key id
\* carries one with 0 < id < 65535; ntpd_config_files with keyfile=True sends
\* nothing when trustedkey_id is out of range.
C3_SentIdsInRange ==
    (/\ last.sent # <<>>
     /\ \/ last.op \in KeyOps
        \/ last.op = "ntpd_config_files" /\ Contains(last.sent[1].cmd, <<" ","-","t"," ">>))
    => (0 < last.id[1] /\ last.id[1] < 65535)

\* C4. ntpd_start and ntpd_stop send their init-script command exactly once,
\* in bash, and raise if and only if the returned output does not contain
\* "done"; the failure comes after the send and nothing else is sent.
C4_StartStopVerified ==
    /\ last.op = "ntpd_start" => last.sent = Bash(<<"/","e","t","c","/","i","n","i","t",".","d","/","n","t","p"," ","s","t","a","r","t">>)
    /\ last.op = "ntpd_stop" => last.sent = Bash(<<"/","e","t","c","/","i","n","i","t",".","d","/","n","t","p"," ","s","t","o","p">>)
    /\ last.op \in {"ntpd_start", "ntpd_stop"} =>
           /\ last.raised <=> ~Contains(last.out, <<"d","o","n","e">>)
           /\ last.out = <<"S","t","a","r","t","i","n","g"," ","n","t","p","d",".",".","."," ","d","o","n","e">> => ~last.raised
           /\ last.out \in {<<"f","a","i","l","e","d">>, <<"d","o","n">>, <<>>} => last.raised

C4_Witness ==
    /\ last.op = "ntpd_start"
    /\ last.out = <<"S","t","a","r","t","i","n","g"," ","n","t","p","d",".",".","."," ","d","o","n","e">>
    /\ ~last.raised
    /\ Len(last.sent) = 1
    /\ ncalls >= 2 /\ nsent = ncalls

\* C5. The command of ntpd_config_files depends on (keyfile, trustedkey_id)
\* alone: without keyfile it is `ntpd -c /etc/ntp.conf` whatever the id, None
\* included; with keyfile and no id the call raises before sending; with
\* keyfile and id k it is `ntpd -c /etc/ntp.conf -k /etc/ntp.keys -t k`.
C5_ConfigCommand ==
    last.op = "ntpd_config_files" =>
        IF ~last.keyfile
        THEN ~last.raised /\ last.sent = Bash(<<"n","t","p","d"," ","-","c"," ","/","e","t","c","/","n","t","p",".","c","o","n","f">>)
        ELSE IF last.id = None
        THEN last.raised /\ last.sent = <<>>
        ELSE /\ ~last.raised
             /\ last.sent =
                    Bash(<<"n","t","p","d"," ","-","c"," ","/","e","t","c","/","n","t","p",".","c","o","n","f"," ","-","k"," ","/","e","t","c","/","n","t","p",".","k","e","y","s"," ","-","t"," ">> \o Str(last.id[1]))
             /\ last.id = <<7>> =>
                    last.sent = Bash(<<"n","t","p","d"," ","-","c"," ","/","e","t","c","/","n","t","p",".","c","o","n","f"," ","-","k"," ","/","e","t","c","/","n","t","p",".","k","e","y","s"," ","-","t"," ","7">>)

C5_Witness ==
    /\ last.op = "ntpd_config_files"
    /\ last.keyfile
    /\ last.id = <<7>>
    /\ last.sent = Bash(<<"n","t","p","d"," ","-","c"," ","/","e","t","c","/","n","t","p",".","c","o","n","f"," ","-","k"," ","/","e","t","c","/","n","t","p",".","k","e","y","s"," ","-","t"," ","7">>)

\* The preconditions of a call, operation by operation.
PreHolds(call) ==
    CASE call.op \in {"add_ntp_server", "remove_ntp_server"} -> call.server # <<>>
      [] call.op = "add_trustedkey_password" ->
             0 < call.id[1] /\ call.id[1] < 65535 /\ call.key # <<>>
      [] call.op \in KeyOps \ {"add_trustedkey_password"} ->
             0 < call.id[1] /\ call.id[1] < 65535
      [] call.op = "ntpd_config_files" -> (call.keyfile => call.id # None)
      [] call.op \in {"ntpd_start", "ntpd_stop"} -> TRUE

C7_RemoveBySubstring ==
    /\ (last.op = "add_ntp_server" /\ ~last.raised) =>
           Conf = Append(ConfBefore, <<"s","e","r","v","e","r"," ">> \o last.server)
    /\ (last.op = "remove_ntp_server" /\ ~last.raised) =>
           Conf = SelectSeq(ConfBefore, LAMBDA l : ~Contains(l, last.server))

C9_OneFilePerOperation ==
    /\ last.op \in {"add_ntp_server", "remove_ntp_server",
                    "add_trustedkey", "remove_trustedkey"} => Keys = KeysBefore
    /\ last.op \in {"add_trustedkey_password", "remove_trustedkey_password"} =>
           Conf = ConfBefore
    /\ last.op \in {"ntpd_start", "ntpd_stop", "ntpd_config_files"} =>
           fs = last.before

C9_Witness ==
    /\ last.op = "add_trustedkey_password"
    /\ Keys # KeysBefore
    /\ Conf # <<>> /\ Conf = ConfBefore
    /\ KeysBefore # <<>>

EntriesOf(addr) ==
    Cardinality({i \in 1..Len(Conf) : Conf[i] = <<"s","e","r","v","e","r"," ">> \o addr})

AllDone == \A c \in Callers : callers.pc[c] = "done"

\* C10. Callers are not serialised by the module: when every caller runs
\* remove_ntp_server(a) then add_ntp_server(a), each serial execution ends
\* with exactly one `server a` line, while interleaved callers can end with two.
C10_SerialUpdateLeavesOne ==
    (callers.sched = "serial" /\ AllDone) => EntriesOf(callers.addr) = 1

C10_Witness ==
    /\ callers.sched = "concurrent"
    /\ AllDone
    /\ EntriesOf(callers.addr) = 2

====
